---------------------------- MODULE Spec2Model ----------------------------
(***************************************************************************)
(* Model of the stream service: the supervisor loop of StreamService       *)
(* (index.ts), the encoder process controller Streamer, the HealthMonitor  *)
(* retry/error bookkeeping and the PlaylistManager work source.            *)
(*                                                                         *)
(* The program runs on a single-threaded event loop.  A callback of the    *)
(* event loop (signal handler, child-process 'exit' or stderr 'data'       *)
(* event, timer, directory watch) is one action; it runs only when no      *)
(* promise continuation is queued (mq empty) and the supervisor loop is    *)
(* not executing synchronously at its head (pc # "top").  A promise        *)
(* continuation is one action that takes the head of the job queue mq.     *)
(* Times are kept in centiseconds, the resolution of HH:MM:SS.ss.          *)
(***************************************************************************)
EXTENDS Integers, Sequences, FiniteSets, TLC

\* ------------------------------------------------------------------ bounds
MaxFiles == 1          \* files that can be present in the video directory
MaxAttempts == 2       \* loop iterations that obtain a video
MaxRetriesCfg == 2     \* largest configured MAX_RETRIES explored
MaxSignals == 1        \* shutdown triggers: signals delivered, fatal errors raised
MaxDirChanges == 1     \* changes made to the video directory during the run
MaxStopCalls == 2      \* calls of Streamer.stop() made besides shutdown's own

\* ------------------------------------------------------- program constants
RetryBackoffMs == 5000       \* config.ts: RETRY_BACKOFF_MS default
MaxErrors == 50              \* HealthMonitor.recordError keeps the last 50
BackoffCapFactor == 60       \* HealthMonitor.getBackoffDelay: cap at 60x
RotationSize == 3            \* videos of the fixed playlist
MaxRetryCount == 12          \* largest retry count given to the backoff policy
MaxRecordCalls == 55         \* errors recorded in a row
MaxReceived == 3             \* tokens of stderr text that the parser is given
MaxChunkLen == 2             \* tokens in one chunk of that text
MaxStartCalls == 1           \* calls of start() by a second caller
MaxNow == 2                  \* clock readings after the start of the monitor
MaxServed == 7               \* getNext() calls made in a row

\* stdio option of spawn('ffmpeg', args, ...): stdin, stdout, stderr
SpawnStdio == << "ignore", "pipe", "pipe" >>

NoProc == 0
NoVideo == 0
Files == 1..MaxFiles
Pids == 1..MaxAttempts
Signals == {"SIGKILL", "SIGTERM"}
\* (code, signal) pairs of the child-process 'exit' event: one of the two
\* is always null
ExitOutcomes ==
  { [code |-> c, signal |-> "null"] : c \in {0, 1} }
    \cup { [code |-> -1, signal |-> s] : s \in Signals }

\* Base delays (ms) given to the backoff policy
BaseDelays == {1, 250, 1000, 5000, 30000, 60000}

\* Timestamps HH:MM:SS.ss that the encoder prints, in centiseconds
DurationVals == {3500}
TimeVals == {3500}
\* A diagnostic chunk is a sequence of tokens, in text order
Tokens ==
  { [kind |-> "Duration", cs |-> d] : d \in DurationVals }
    \cup { [kind |-> "time", cs |-> t] : t \in TimeVals }
Chunks == { <<tk>> : tk \in Tokens }

\* Text that the failure diagnosis looks for in the encoder's output
Markers ==
  {"Invalid data found", "NVENC", "h264_nvenc", "Connection refused", "RTMP",
   "Conversion failed"}

\* Encoder output of the sessions whose diagnosis is examined: a 30 min
\* video, progress of 42 s, and error text
DiagnosisTotals == {180000}
DiagnosisTimes == {4200}
DiagnosisTokens ==
  { [kind |-> "Duration", cs |-> d] : d \in DiagnosisTotals }
    \cup { [kind |-> "time", cs |-> t] : t \in DiagnosisTimes }
    \cup { [kind |-> m, cs |-> 0] : m \in {"Invalid data found", "RTMP"} }
DiagnosisChunks == { <<tk>> : tk \in DiagnosisTokens }

\* Encoder output of the sessions whose parsing is examined: headers and
\* markers with different values, stream lines of the input and of the
\* output, and a header and a marker cut in two
ParserTokens ==
  { [kind |-> "Duration", cs |-> d] : d \in {3500, 60000} }
    \cup { [kind |-> "time", cs |-> t] : t \in {1029, 3500} }
    \cup { [kind |-> "Video", cs |-> k] : k \in {1, 2} }
    \cup { [kind |-> k, cs |-> 1] : k \in {"Audio", "Input"} }
    \cup { [kind |-> k, cs |-> 3500] :
             k \in {"Duration-head", "Duration-tail", "time-head", "time-tail"} }

\* Progress and total durations, in centiseconds, of the sessions whose
\* failure diagnosis is examined on its own: no total, and progress below,
\* at and above half of the total
ClassifierTotals == {0, 3500}
ClassifierProgress == {0, 1749, 1750, 3500}

\* Progress and total durations, in centiseconds, of the sessions whose
\* completion judgement is examined on its own
CompletionTotals == {0, 1050, 3500, 60000}
CompletionProgress == {0, 1029, 1030, 3429, 3430, 3431, 58700, 58799, 58800, 60000}

VARIABLES
  loopPlaylist, previewMode, maxRetries,   \* StreamConfig
  retryBackoffMs,      \* StreamConfig.retryBackoffMs
  dir,                 \* supported video files present in VIDEO_DIR
  playlist, currentIndex,                  \* PlaylistManager
  process,             \* Streamer.process: NoProc or the pid of the handle
  currentVideoPath,    \* Streamer.currentVideoPath
  streamDuration, videoDuration,           \* Streamer session counters
  errorChunks,         \* start(): text markers in the stderr chunks kept
  inputMetadata,       \* start(): metadata parsed from the stderr chunks
  alive,               \* encoder processes the OS is running
  startPromise,        \* promise returned by Streamer.start
  startError,          \* rejection reason of startPromise
  stopPending,         \* stop() registered its once('exit') listener
  killTimer,           \* armed 5 s force-kill timers of stop()
  quitWritten,         \* stop() wrote 'q' to the encoder's stdin
  stopWaiters,         \* promises returned by stop() and not yet resolved
  killSent,            \* SIGKILL was sent to the process
  retryCount, errors,                      \* HealthMonitor
  currentVideo,        \* HealthMonitor.status.currentVideo
  statusErrors,        \* the array HealthMonitor.status.errors refers to
  snapshot,            \* a status object that getStatus() returned
  recordCalls,         \* calls of recordError made so far
  isShuttingDown,                          \* StreamService
  pc,                  \* position of streamLoop
  sdpc,                \* position of the running shutdown()
  sleepTimer,          \* delay of the armed backoff timer, 0 if none
  mq,                  \* queued promise continuations
  pendingSignals,      \* SIGINT/SIGTERM delivered, handler not yet run
  signalsSent,
  stopCalls,           \* calls of stop() made from outside shutdown()
  shutdownRuns,        \* executions of shutdown() past its entry guard
  released,            \* collaborators released by shutdown()
  terminated,          \* process.exit was called
  watchPending,        \* a directory watch event is queued
  dirChanges,          \* changes made to the directory so far
  attempts,            \* loop iterations that obtained a video
  session,             \* judgement of the last ended session
  received,            \* the stderr text delivered so far, chunks joined
  armedFor,            \* per armed force-kill timer: the session stop() was called on
  overlay,             \* text of the overlay file
  uptime,              \* HealthMonitor.status.uptime
  now,                 \* Date.now(), counted from HealthMonitor.startTime
  startCalls,          \* calls of start() made from outside streamLoop
  callError,           \* rejection reason of the last such call
  served,              \* the results of the getNext() calls made so far
  failedSince          \* failed sessions since the last Completed one
vars ==
  << loopPlaylist, previewMode, maxRetries, retryBackoffMs, dir, playlist,
     currentIndex,
     process, currentVideoPath, streamDuration, videoDuration, errorChunks,
     inputMetadata, alive,
     startPromise, startError, stopPending, killTimer, quitWritten, killSent,
     retryCount, errors, isShuttingDown, pc, sdpc, sleepTimer, mq,
     pendingSignals, signalsSent, released, terminated, watchPending,
     stopWaiters, stopCalls, shutdownRuns, currentVideo, statusErrors,
     snapshot, recordCalls,
     dirChanges, attempts, session, failedSince, received,
     armedFor, overlay, uptime, now, startCalls, callError, served >>

\* ----------------------------------------------------------------------
\* IEEE-754 binary64 arithmetic, as the JavaScript Number operations of
\* the source perform it.  A positive double is [hi, lo, e]: the 53-bit
\* significand hi * 2^27 + lo (2^52 <= significand < 2^53) and the
\* exponent e of its last bit; zero has hi = lo = 0.  Intermediate exact
\* values are pairs <<hi, lo>> in base 2^27 so that every machine
\* integer stays below 2^31.
LimbBits == 27
Limb == 2 ^ LimbBits
MantBits == 53

BitLen(n) ==
  IF n = 0 THEN 0
  ELSE 1 + CHOOSE k \in 0..30 : 2 ^ k <= n /\ (k = 30 \/ 2 ^ (k + 1) > n)

BigNorm(hi, lo) ==
  << hi + lo \div Limb, lo % Limb >>

BigGE(a, b) ==
  a[1] > b[1] \/ (a[1] = b[1] /\ a[2] >= b[2])

BigSub(a, b) ==
  IF a[2] >= b[2] THEN << a[1] - b[1], a[2] - b[2] >>
  ELSE << a[1] - b[1] - 1, a[2] + Limb - b[2] >>

BigAdd(a, b) ==
  BigNorm(a[1] + b[1], a[2] + b[2])

BigShl(a, k) ==
  IF k >= LimbBits
    THEN << a[2] * 2 ^ (k - LimbBits), 0 >>
    ELSE << a[1] * 2 ^ k + a[2] \div 2 ^ (LimbBits - k),
            (a[2] % 2 ^ (LimbBits - k)) * 2 ^ k >>

BigShr(a, k) ==
  << a[1] \div 2 ^ k, a[2] \div 2 ^ k + (a[1] % 2 ^ k) * 2 ^ (LimbBits - k) >>

BigLen(a) ==
  IF a[1] > 0 THEN LimbBits + BitLen(a[1]) ELSE BitLen(a[2])

DblZero == [hi |-> 0, lo |-> 0, e |-> 0]

\* Round the exact value t * 2^e (plus a nonzero fraction of its last bit
\* when sticky) to the nearest double, ties to even.
DblRound(t, e, sticky) ==
  LET n == BigLen(t)
  IN  IF n = 0 THEN DblZero
      ELSE IF n <= MantBits
        THEN LET s == BigShl(t, MantBits - n)
             IN  [hi |-> s[1], lo |-> s[2], e |-> e - (MantBits - n)]
      ELSE LET drop == n - MantBits
               kept == BigShr(t, drop)
               lost == t[2] % 2 ^ drop
               guard == lost >= 2 ^ (drop - 1)
               rest == sticky \/ lost % 2 ^ (drop - 1) # 0
               up == guard /\ (rest \/ kept[2] % 2 = 1)
               inc == IF up THEN BigNorm(kept[1], kept[2] + 1) ELSE kept
           IN  IF BigLen(inc) > MantBits
                 THEN [hi |-> inc[1] \div 2, lo |-> 0, e |-> e + drop + 1]
                 ELSE [hi |-> inc[1], lo |-> inc[2], e |-> e + drop]

\* The double nearest to the decimal n / d (parseFloat of "SS.ss" with
\* n = SSss, d = 100), by long division in 13-bit digits.
DblFromRatio(n, d) ==
  IF n = 0 THEN DblZero
  ELSE
    LET k == IF n >= d THEN BitLen(n \div d) - 1
             ELSE 0 - (CHOOSE j \in 1..30 : n * 2 ^ j >= d /\ n * 2 ^ (j - 1) < d)
        nn == IF k < 0 THEN n * 2 ^ (0 - k) ELSE n
        dd == IF k > 0 THEN d * 2 ^ k ELSE d
        r0 == nn % dd
        c1 == (r0 * 8192) \div dd
        r1 == (r0 * 8192) % dd
        c2 == (r1 * 8192) \div dd
        r2 == (r1 * 8192) % dd
        c3 == (r2 * 8192) \div dd
        r3 == (r2 * 8192) % dd
        c4 == (r3 * 8192) \div dd
        r4 == (r3 * 8192) % dd
        c5 == (r4 * 4) \div dd
        r5 == (r4 * 4) % dd
        q == << Limb + c1 * 16384 + c2 * 2 + c3 \div 4096,
                (c3 % 4096) * 32768 + c4 * 4 + c5 >>
    IN  DblRound(q, k - 54, r5 # 0)

\* i + x for an integer i >= 0 (exact as a double) and a double x >= 0
DblAddInt(i, x) ==
  IF x.hi = 0 THEN DblRound(<< 0, i >>, 0, FALSE)
  ELSE IF i = 0 THEN x
  ELSE
    LET k0 == BitLen(i) - 1
        u == k0 - 54
        ipart == BigShl(<< i, 0 >>, LimbBits - k0)
        sh == u - x.e
        m == << x.hi, x.lo >>
        xpart == IF sh >= 0 THEN BigShr(m, sh) ELSE BigShl(m, 0 - sh)
        st == sh > 0 /\ x.lo % 2 ^ sh # 0
    IN  DblRound(BigAdd(ipart, xpart), u, st)

BigMulSmall(a, j) ==
  BigNorm(a[1] * j, a[2] * j)

\* n more hexadecimal quotient digits of rem / den (rem < den) by long
\* division: the quotient so far and whether the division came out exact
RECURSIVE DivSteps(_, _, _)
DivSteps(rem, den, n) ==
  IF n = 0 THEN [q |-> << 0, 0 >>, exact |-> rem = << 0, 0 >>]
  ELSE LET r == BigShl(rem, 4)
           digit == CHOOSE j \in 0..15 :
                      /\ BigGE(r, BigMulSmall(den, j))
                      /\ j = 15 \/ ~BigGE(r, BigMulSmall(den, j + 1))
           d == DivSteps(BigSub(r, BigMulSmall(den, digit)), den, n - 1)
       IN  [q |-> BigAdd(BigShl(<< 0, digit >>, 4 * (n - 1)), d.q),
            exact |-> d.exact]

DivDigits == 14

\* a / b
DblDiv(a, b) ==
  IF a.hi = 0 THEN DblZero
  ELSE
    LET num == << a.hi, a.lo >>
        den == << b.hi, b.lo >>
        first == BigGE(num, den)
        d == DivSteps(IF first THEN BigSub(num, den) ELSE num, den, DivDigits)
        q == IF first THEN BigAdd(BigShl(<< 0, 1 >>, 4 * DivDigits), d.q) ELSE d.q
    IN  DblRound(q, a.e - b.e - 4 * DivDigits, ~d.exact)

\* x * 100
DblMul100(x) ==
  IF x.hi = 0 THEN DblZero
  ELSE
    LET m == << x.hi, x.lo >>
    IN  DblRound(BigAdd(BigAdd(BigShl(m, 4), BigShl(m, 3)), m), x.e + 2, FALSE)

\* x >= i for an integer i > 0
DblGEInt(x, i) ==
  LET y == DblRound(<< 0, i >>, 0, FALSE)
  IN  IF x.hi = 0 THEN FALSE
      ELSE IF x.e # y.e THEN x.e > y.e
      ELSE BigGE(<< x.hi, x.lo >>, << y.hi, y.lo >>)

\* hours * 3600 + minutes * 60 + seconds of a timestamp HH:MM:SS.ss given
\* in centiseconds
ParseTimestamp(cs) ==
  LET hours == cs \div 360000
      minutes == (cs % 360000) \div 6000
      seconds == DblFromRatio(cs % 6000, 100)
  IN  DblAddInt(hours * 3600 + minutes * 60, seconds)

DblHalf(x) ==
  IF x.hi = 0 THEN DblZero ELSE [x EXCEPT !.e = x.e - 1]

\* x < y
DblLess(x, y) ==
  IF y.hi = 0 THEN FALSE
  ELSE IF x.hi = 0 THEN TRUE
  ELSE IF x.e # y.e THEN x.e < y.e
  ELSE ~BigGE(<< x.hi, x.lo >>, << y.hi, y.lo >>)

\* a shifted right by k bits, k <= 81
BigShrFar(a, k) ==
  IF k <= LimbBits THEN BigShr(a, k)
  ELSE IF k <= 2 * LimbBits THEN BigShr(BigShr(a, LimbBits), k - LimbBits)
  ELSE BigShr(BigShr(BigShr(a, LimbBits), LimbBits), k - 2 * LimbBits)

\* Number.prototype.toFixed(1) of a double 0 <= x < 2^20, as the number of
\* tenths printed: the integer nearest to 10 * x, the larger one of two
DblToFixed1(x) ==
  IF x.hi = 0 THEN 0
  ELSE LET t == BigMulSmall(<< x.hi, x.lo >>, 10)
           k == 0 - x.e
       IN  IF k > 58 THEN 0
           ELSE LET half == IF k - 1 >= LimbBits
                              THEN << 2 ^ (k - 1 - LimbBits), 0 >>
                              ELSE << 0, 2 ^ (k - 1) >>
                    n == BigShrFar(BigAdd(t, half), k)
                IN  n[1] * Limb + n[2]

wasVideoCompleted(stream, video) ==
  IF video = 0 THEN TRUE
  ELSE LET completionPercentage ==
             DblMul100(DblDiv(ParseTimestamp(stream), ParseTimestamp(video)))
       IN  DblGEInt(completionPercentage, 98)

\* ----------------------------------------------------------------------
\* HealthMonitor
\* a list that keeps its first entries and drops the new ones
recordErrorKeepFirst(errs, errorMsg) ==
  LET pushed == Append(errs, errorMsg)
  IN  IF Len(pushed) > MaxErrors THEN SubSeq(pushed, 1, MaxErrors) ELSE pushed

recordError(errs, errorMsg) ==
  LET pushed == Append(errs, errorMsg)
  IN  IF Len(pushed) > MaxErrors
        THEN SubSeq(pushed, Len(pushed) - MaxErrors + 1, Len(pushed))
        ELSE pushed

\* a retry counted twice
incrementRetryTwice(count) ==
  count + 2

incrementRetry(count) ==
  count + 1

\* a reset that leaves the counter as it is
resetRetryKept ==
  retryCount

resetRetry ==
  0

shouldRetry(count) ==
  count < maxRetries

\* HealthMonitor.updateCurrentVideo(filename): the video recorded as current
updateCurrentVideo(filename) ==
  IF filename # NoVideo THEN filename ELSE NoVideo

\* a delay that keeps doubling
getBackoffDelayUncapped(count) ==
  retryBackoffMs * 2 ^ count

\* the larger of the two delays instead of the smaller
getBackoffDelayMax(count) ==
  LET exponentialDelay == retryBackoffMs * 2 ^ count
      maxDelay == retryBackoffMs * BackoffCapFactor
  IN  IF exponentialDelay > maxDelay THEN exponentialDelay ELSE maxDelay

\* HealthMonitor.getBackoffDelay().  The products stay below 2^31 for the
\* bases and counts examined, where the doubles of the source are exact.
getBackoffDelay(count) ==
  LET baseDelay == retryBackoffMs
      exponentialDelay == baseDelay * 2 ^ count
      maxDelay == baseDelay * BackoffCapFactor
  IN  IF exponentialDelay < maxDelay THEN exponentialDelay ELSE maxDelay

\* HealthMonitor.updateUptime(): Date.now() - this.startTime.getTime();
\* monitor.start() sets startTime before the loop starts
updateUptime ==
  now

\* ----------------------------------------------------------------------
\* OverlayManager
\* the overlay file as the constructor leaves it and as clear() writes it
NoOverlay ==
  <<>>

\* an overlay text without the name of the video
formatOverlayTextBlank(videoName) ==
  <<>>

\* formatOverlayText({ videoName, timestamp }): 'Now Playing: <videoName>'
formatOverlayText(videoName) ==
  << "Now Playing", videoName >>

\* ----------------------------------------------------------------------
\* PlaylistManager
RECURSIVE SortedSeq(_)
SortedSeq(S) ==
  IF S = {} THEN <<>>
  ELSE LET least == CHOOSE x \in S : \A y \in S : x <= y
       IN  <<least>> \o SortedSeq(S \ {least})

\* scanVideoDirectory: the supported files of the directory, by filename
scanVideoDirectory(d) ==
  SortedSeq(d)

\* getNext: the video returned (NoVideo for null or undefined) and the new
\* currentIndex; idx is the 0-based currentIndex
\* a work source that hands out the item at the index and stays on it
getNextStay(pl, idx) ==
  [video |-> IF idx + 1 \in DOMAIN pl THEN pl[idx + 1] ELSE NoVideo,
   index |-> idx]

getNext(pl, idx) ==
  IF Len(pl) = 0 THEN [video |-> NoVideo, index |-> idx]
  ELSE LET video == IF idx + 1 \in DOMAIN pl THEN pl[idx + 1] ELSE NoVideo
       IN  IF idx + 1 >= Len(pl)
             THEN IF loopPlaylist THEN [video |-> video, index |-> 0]
                  ELSE [video |-> NoVideo, index |-> idx + 1]
             ELSE [video |-> video, index |-> idx + 1]

\* ----------------------------------------------------------------------
\* Streamer
\* The text of a chunk is a sequence of tokens [kind, cs].  "Duration" and
\* "time" are a 'Duration: HH:MM:SS.ss' header and a 'time=HH:MM:SS.ss'
\* marker with the timestamp cs; "Input", "Video" and "Audio" are an
\* 'Input #0, <container>,' line and 'Stream #...: Video:' / 'Audio:'
\* lines whose values are numbered cs.  A header or marker cut in two by
\* a chunk boundary is a "-head" token followed by a "-tail" token:
\* neither matches the pattern, the head of a header contains 'Duration:'.
FirstOf(chunk, kind, default) ==
  LET idxs == { i \in DOMAIN chunk : chunk[i].kind = kind }
  IN  IF idxs = {} THEN default
      ELSE chunk[CHOOSE i \in idxs : \A j \in idxs : i <= j].cs

\* output.includes(text)
Includes(chunk, kinds) ==
  \E i \in DOMAIN chunk : chunk[i].kind \in kinds

\* metadata of start(): no field set
NoMetadata ==
  [container |-> 0, videoCodec |-> 0, resolution |-> 0, fps |-> 0,
   audioCodec |-> 0, sampleRate |-> 0]

\* parseFFmpegOutput: String.match returns the first match in the chunk
parseFFmpegOutput(chunk, stream, video, metadata) ==
  LET hasDuration == Includes(chunk, {"Duration", "Duration-head"})
      hasVideo == Includes(chunk, {"Video"})
      hasAudio == Includes(chunk, {"Audio"})
  IN  [videoDuration |-> IF hasDuration THEN FirstOf(chunk, "Duration", video)
                         ELSE video,
       streamDuration |-> FirstOf(chunk, "time", stream),
       metadata |->
         [container |-> IF hasDuration
                          THEN FirstOf(chunk, "Input", metadata.container)
                          ELSE metadata.container,
          videoCodec |-> IF hasVideo
                           THEN FirstOf(chunk, "Video", metadata.videoCodec)
                           ELSE metadata.videoCodec,
          resolution |-> IF hasVideo
                           THEN FirstOf(chunk, "Video", metadata.resolution)
                           ELSE metadata.resolution,
          fps |-> IF hasVideo THEN FirstOf(chunk, "Video", metadata.fps)
                  ELSE metadata.fps,
          audioCodec |-> IF hasAudio
                           THEN FirstOf(chunk, "Audio", metadata.audioCodec)
                           ELSE metadata.audioCodec,
          sampleRate |-> IF hasAudio
                           THEN FirstOf(chunk, "Audio", metadata.sampleRate)
                           ELSE metadata.sampleRate]]

\* The text that chunks put one after the other make up: a head at the end
\* of one chunk and its tail at the start of the next are one header or
\* marker
RECURSIVE Join(_)
Join(text) ==
  IF Len(text) < 2 THEN text
  ELSE LET a == text[1]
           b == text[2]
       IN  IF /\ a.kind \in {"Duration-head", "time-head"}
              /\ b.kind = (IF a.kind = "time-head" THEN "time-tail"
                           ELSE "Duration-tail")
              /\ a.cs = b.cs
             THEN << [kind |-> IF a.kind = "time-head" THEN "time" ELSE "Duration",
                      cs |-> a.cs] >> \o Join(SubSeq(text, 3, Len(text)))
             ELSE << a >> \o Join(Tail(text))

\* Values the session counters can take, and the completion judgement of
\* each pair of them
StreamValues ==
  {0} \cup TimeVals \cup CompletionProgress \cup DiagnosisTimes
    \cup ClassifierProgress
VideoValues ==
  {0} \cup DurationVals \cup CompletionTotals \cup DiagnosisTotals
    \cup ClassifierTotals
CompletedTable ==
  [s \in StreamValues, v \in VideoValues |-> wasVideoCompleted(s, v)]

\* this.streamDuration < this.videoDuration * 0.5
stoppedEarly(stream, video) ==
  DblLess(ParseTimestamp(stream), DblHalf(ParseTimestamp(video)))

StoppedEarlyTable ==
  [s \in StreamValues, v \in VideoValues |-> stoppedEarly(s, v)]

\* The 'Completion:' line of the report, in tenths of a percent:
\* videoDuration > 0 ? ((streamDuration / videoDuration) * 100).toFixed(1) : 0
reportCompletion(stream, video) ==
  IF video > 0
    THEN DblToFixed1(DblMul100(DblDiv(ParseTimestamp(stream), ParseTimestamp(video))))
    ELSE 0

CompletionLineTable ==
  [s \in StreamValues, v \in VideoValues |-> reportCompletion(s, v)]

\* the markers of the error text that a chunk carries
MarkersOf(chunk) ==
  { chunk[i].kind : i \in DOMAIN chunk } \cap Markers

\* a diagnosis that blames memory for every signal
generateErrorReportAnySignal(signal, fullError, stream, video) ==
  IF signal # "null" THEN "out of memory"
  ELSE IF "Invalid data found" \in fullError THEN "corrupted file"
  ELSE IF "NVENC" \in fullError \/ "h264_nvenc" \in fullError THEN "hardware encoder"
  ELSE IF "Connection refused" \in fullError \/ "RTMP" \in fullError THEN "network"
  ELSE IF "Conversion failed" \in fullError THEN "conversion"
  ELSE IF StoppedEarlyTable[stream, video] THEN "stopped early"
  ELSE "unknown"

\* a diagnosis that looks for network trouble before the hardware encoder
generateErrorReportNetworkFirst(signal, fullError, stream, video) ==
  IF signal = "SIGKILL" THEN "out of memory"
  ELSE IF "Invalid data found" \in fullError THEN "corrupted file"
  ELSE IF "Connection refused" \in fullError \/ "RTMP" \in fullError THEN "network"
  ELSE IF "NVENC" \in fullError \/ "h264_nvenc" \in fullError THEN "hardware encoder"
  ELSE IF "Conversion failed" \in fullError THEN "conversion"
  ELSE IF StoppedEarlyTable[stream, video] THEN "stopped early"
  ELSE "unknown"

\* a diagnosis that looks at the signal only when nothing else matches
generateErrorReportSignalLast(signal, fullError, stream, video) ==
  IF "Invalid data found" \in fullError THEN "corrupted file"
  ELSE IF "NVENC" \in fullError \/ "h264_nvenc" \in fullError THEN "hardware encoder"
  ELSE IF "Connection refused" \in fullError \/ "RTMP" \in fullError THEN "network"
  ELSE IF "Conversion failed" \in fullError THEN "conversion"
  ELSE IF StoppedEarlyTable[stream, video] THEN "stopped early"
  ELSE IF signal = "SIGKILL" THEN "out of memory"
  ELSE "unknown"

\* Streamer.generateErrorReport: the 'Possible Causes' section; fullError
\* is the set of markers that the joined stderr chunks contain
generateErrorReport(signal, fullError, stream, video) ==
  IF signal = "SIGKILL" THEN "out of memory"
  ELSE IF "Invalid data found" \in fullError THEN "corrupted file"
  ELSE IF "NVENC" \in fullError \/ "h264_nvenc" \in fullError THEN "hardware encoder"
  ELSE IF "Connection refused" \in fullError \/ "RTMP" \in fullError THEN "network"
  ELSE IF "Conversion failed" \in fullError THEN "conversion"
  ELSE IF StoppedEarlyTable[stream, video] THEN "stopped early"
  ELSE "unknown"

\* An early end treated as a failure
ExitSettlesStrict(o, wasCompleted) ==
  IF o.signal # "null"
    THEN [state |-> "rejected", error |-> <<"killed", o.signal>>, kind |-> "failed"]
  ELSE IF o.code # 0
    THEN [state |-> "rejected", error |-> <<"exited", o.code>>, kind |-> "failed"]
  ELSE IF ~wasCompleted
    THEN [state |-> "rejected", error |-> <<"ended early">>, kind |-> "premature"]
  ELSE [state |-> "resolved", error |-> <<>>, kind |-> "completed"]

\* The 'exit' handler registered by start: how the promise is settled
ExitSettles(o, wasCompleted) ==
  IF o.signal # "null"
    THEN [state |-> "rejected", error |-> <<"killed", o.signal>>, kind |-> "failed"]
  ELSE IF o.code # 0
    THEN [state |-> "rejected", error |-> <<"exited", o.code>>, kind |-> "failed"]
  ELSE IF ~wasCompleted
    THEN [state |-> "resolved", error |-> <<>>, kind |-> "premature"]
  ELSE [state |-> "resolved", error |-> <<>>, kind |-> "completed"]

isStreaming ==
  process # NoProc

\* ----------------------------------------------------------------------
cfgVars == << loopPlaylist, previewMode, maxRetries, retryBackoffMs >>
plVars == << dir, playlist, currentIndex, watchPending, dirChanges >>
procVars == << process, currentVideoPath, streamDuration, videoDuration,
               errorChunks, inputMetadata,
               alive, killSent >>
promVars == << startPromise, startError >>
stopVars == << stopPending, killTimer, quitWritten, stopWaiters, armedFor >>
outVars == << overlay, uptime >>
auxVars == << now, startCalls, callError, served >>
monVars ==
  << retryCount, errors, currentVideo, statusErrors, snapshot, recordCalls >>
sdVars == << isShuttingDown, sdpc, released, terminated, shutdownRuns >>
sigVars == << pendingSignals, signalsSent, stopCalls >>
ghostVars == << session, failedSince, received >>

\* cause, video and percent are the 'Possible Causes', 'Video:' and
\* 'Completion:' entries of the error report, if one was generated
NoSession ==
  [kind |-> "none", stopped |-> FALSE, killed |-> FALSE, signal |-> "null",
   cause |-> "none", video |-> NoVideo, percent |-> 0]

\* HealthMonitor constructor: status.errors is an array of its own, not
\* the array of this.errors; own tells whether it still is
InitialStatusErrors == [own |-> TRUE, items |-> <<>>]

\* No status object is held.  A held one shows the items of its errors
\* array; ref tells which array that is: "live" the one this.errors refers
\* to, "initial" the constructor's status array, "old" one that the
\* monitor has dropped.
NoSnapshot == [taken |-> FALSE, errors |-> <<>>, ref |-> "none", mutated |-> FALSE]

\* HealthMonitor.recordError(error): push on the array of this.errors,
\* replace it by a slice when it is too long, then point status.errors to
\* the array of this.errors
RecordError(errorMsg) ==
  /\ errors' = recordError(errors, errorMsg)
  /\ statusErrors' = [own |-> FALSE, items |-> errors']
  /\ snapshot' =
       IF snapshot.ref = "live"
         THEN [snapshot EXCEPT
                 !.errors = Append(errors, errorMsg),
                 !.ref = IF Len(errors) + 1 > MaxErrors THEN "old" ELSE "live"]
         ELSE snapshot
  /\ recordCalls' = recordCalls + 1

\* HealthMonitor.getStatus(): { ...this.status }, a new object whose errors
\* property refers to the array of status.errors
getStatus ==
  [taken |-> TRUE, errors |-> statusErrors.items,
   ref |-> IF statusErrors.own THEN "initial" ELSE "live", mutated |-> FALSE]

Init ==
  /\ loopPlaylist \in BOOLEAN
  /\ previewMode \in BOOLEAN
  /\ maxRetries \in 1..MaxRetriesCfg
  /\ retryBackoffMs = RetryBackoffMs
  /\ dir \in { 1..k : k \in Files }
  /\ playlist = scanVideoDirectory(dir)
  /\ currentIndex = 0
  /\ watchPending = FALSE
  /\ dirChanges = 0
  /\ process = NoProc
  /\ currentVideoPath = NoVideo
  /\ streamDuration = 0
  /\ videoDuration = 0
  /\ errorChunks = {}
  /\ inputMetadata = NoMetadata
  /\ alive = {}
  /\ killSent = FALSE
  /\ startPromise = "none"
  /\ startError = <<>>
  /\ stopPending = NoProc
  /\ killTimer = 0
  /\ quitWritten = FALSE
  /\ stopWaiters = 0
  /\ retryCount = 0
  /\ errors = <<>>
  /\ statusErrors = InitialStatusErrors
  /\ snapshot = NoSnapshot
  /\ recordCalls = 0
  /\ currentVideo = NoVideo
  /\ isShuttingDown = FALSE
  /\ pc = "top"
  /\ sdpc = "none"
  /\ sleepTimer = 0
  /\ mq = <<>>
  /\ pendingSignals = 0
  /\ signalsSent = 0
  /\ stopCalls = 0
  /\ shutdownRuns = 0
  /\ released = FALSE
  /\ terminated = FALSE
  /\ attempts = 0
  /\ session = NoSession
  /\ failedSince = 0
  /\ received = <<>>
  /\ armedFor = <<>>
  /\ overlay = NoOverlay
  /\ uptime = 0
  /\ now = 0
  /\ startCalls = 0
  /\ callError = <<>>
  /\ served = <<>>

\* The event loop can run a callback: no continuation is queued and the
\* supervisor loop is not executing
Idle ==
  /\ ~terminated
  /\ mq = <<>>
  /\ pc \notin {"top", "cutoff"}

\* ----------------------------------------------------------------------
\* StreamService.shutdown, from its call to its first suspension point.
\* stop() registers its once('exit') listener and arms the force-kill
\* timer; its write of 'q' goes to a stdin that spawn left unopened
\* (stdio[0] is 'ignore'), so nothing reaches the encoder.
ShutdownRest ==
  IF previewMode
    THEN /\ sdpc' = "awaitPreview"
         /\ UNCHANGED << released, terminated, outVars >>
    ELSE /\ sdpc' = "done"
         /\ released' = TRUE
         /\ overlay' = NoOverlay
         /\ uptime' = updateUptime
         /\ terminated' = TRUE

\* stop() without its early return for a missing process
StreamerStopUnguarded ==
  /\ stopPending' = process
  /\ stopWaiters' = stopWaiters + 1
  /\ quitWritten' = (quitWritten \/ SpawnStdio[1] = "pipe")
  /\ killTimer' = killTimer + 1
  /\ armedFor' = Append(armedFor, attempts)

\* Streamer.stop(), up to the return of its promise
StreamerStop ==
  IF ~isStreaming
    THEN UNCHANGED stopVars
    ELSE /\ stopPending' = process
         /\ stopWaiters' = stopWaiters + 1
         /\ quitWritten' = (quitWritten \/ SpawnStdio[1] = "pipe")
         /\ killTimer' = killTimer + 1
         /\ armedFor' = Append(armedFor, attempts)

\* shutdown() without its entry guard
ShutdownCallUnguarded ==
  /\ isShuttingDown' = TRUE
  /\ shutdownRuns' = shutdownRuns + 1
  /\ IF isStreaming
       THEN /\ StreamerStop
            /\ sdpc' = "awaitStop"
            /\ UNCHANGED << released, terminated, outVars >>
       ELSE /\ ShutdownRest
            /\ UNCHANGED stopVars

ShutdownCall ==
  IF isShuttingDown
    THEN UNCHANGED << sdVars, stopVars, outVars >>
    ELSE /\ isShuttingDown' = TRUE
         /\ shutdownRuns' = shutdownRuns + 1
         /\ IF isStreaming
              THEN /\ StreamerStop
                   /\ sdpc' = "awaitStop"
                   /\ UNCHANGED << released, terminated, outVars >>
              ELSE /\ ShutdownRest
                   /\ UNCHANGED stopVars

\* a loop that never looks at the flag
LoopConditionAlways ==
  TRUE

\* while (!this.isShuttingDown)
LoopCondition ==
  ~isShuttingDown

\* streamLoop leaves the while loop and awaits shutdown()
LoopBreak ==
  /\ ShutdownCall
  /\ pc' = "awaitShutdown"
  /\ mq' = IF isShuttingDown THEN Append(mq, "loopAfterShutdown") ELSE mq

\* an 'error' handler that leaves the handle of the failed spawn in place
OnProcessErrorKeepsHandle(videoPath) ==
  /\ process' = CHOOSE p \in Pids : p \notin alive
  /\ currentVideoPath' = NoVideo
  /\ startPromise' = "rejected"
  /\ startError' = <<"spawn error">>
  /\ session' = [NoSession EXCEPT !.kind = "failed",
                                  !.cause = generateErrorReport("null", {},
                                              streamDuration', videoDuration'),
                                  !.video = videoPath,
                                  !.percent = CompletionLineTable[streamDuration',
                                                                  videoDuration']]

\* 'error' handler of the child process: the report is generated, then
\* the handle and the path are cleared and the promise of start is rejected
OnProcessError(videoPath) ==
  /\ process' = NoProc
  /\ currentVideoPath' = NoVideo
  /\ startPromise' = "rejected"
  /\ startError' = <<"spawn error">>
  /\ session' = [NoSession EXCEPT !.kind = "failed",
                                  !.cause = generateErrorReport("null", {},
                                              streamDuration', videoDuration'),
                                  !.video = videoPath,
                                  !.percent = CompletionLineTable[streamDuration',
                                                                  videoDuration']]

\* start() that resets the session before it looks at the handle
startEntryResetFirst(videoPath) ==
  [error |-> IF isStreaming THEN << "already running" >>
             ELSE IF videoPath \notin dir THEN << "not found", videoPath >>
             ELSE <<>>,
   currentVideoPath |-> videoPath, streamDuration |-> 0, videoDuration |-> 0]

\* start() that keeps the counters of the session before
startEntryKeepsCounters(videoPath) ==
  [error |-> IF isStreaming THEN << "already running" >>
             ELSE IF videoPath \notin dir THEN << "not found", videoPath >>
             ELSE <<>>,
   currentVideoPath |-> IF isStreaming \/ videoPath \notin dir
                          THEN currentVideoPath ELSE videoPath,
   streamDuration |-> streamDuration, videoDuration |-> videoDuration]

\* Streamer.start(videoPath) from its entry to the spawn: the error
\* thrown by its guards, if any, and the session fields as the
\* assignments after the guards leave them
startEntry(videoPath) ==
  IF isStreaming
    THEN [error |-> << "already running" >>,
          currentVideoPath |-> currentVideoPath,
          streamDuration |-> streamDuration, videoDuration |-> videoDuration]
  ELSE IF videoPath \notin dir
    THEN [error |-> << "not found", videoPath >>,
          currentVideoPath |-> currentVideoPath,
          streamDuration |-> streamDuration, videoDuration |-> videoDuration]
  ELSE [error |-> <<>>, currentVideoPath |-> videoPath,
        streamDuration |-> 0, videoDuration |-> 0]

\* Streamer.start(videoPath), up to the return of its promise.  A failed
\* spawn is reported by the 'error' event before any other callback runs,
\* so its handler is part of this step.
StreamerStart(videoPath) ==
  LET entry == startEntry(videoPath)
  IN  /\ streamDuration' = entry.streamDuration
      /\ videoDuration' = entry.videoDuration
      /\ \/ \* throws: a stream is already running, or the file does not exist
            /\ entry.error # <<>>
            /\ currentVideoPath' = entry.currentVideoPath
            /\ startPromise' = "rejected"
            /\ startError' = entry.error
            /\ session' = [NoSession EXCEPT !.kind = "failed"]
            /\ mq' = Append(mq, "loopStartSettled")
            /\ UNCHANGED << process, errorChunks, inputMetadata, alive,
                            killSent >>
         \/ \* the encoder is spawned
            /\ entry.error = <<>>
            /\ \E p \in Pids \ alive :
                 /\ \A q \in Pids \ alive : p <= q
                 /\ process' = p
                 /\ alive' = alive \cup {p}
            /\ currentVideoPath' = entry.currentVideoPath
            /\ errorChunks' = {}
            /\ inputMetadata' = NoMetadata
            /\ killSent' = FALSE
            /\ startPromise' = "pending"
            /\ startError' = <<>>
            /\ session' = NoSession
            /\ UNCHANGED mq
         \/ \* the encoder cannot be launched: the 'error' handler rejects
            /\ entry.error = <<>>
            /\ errorChunks' = {}
            /\ inputMetadata' = NoMetadata
            /\ UNCHANGED << alive, killSent >>
            /\ OnProcessError(entry.currentVideoPath)
            /\ mq' = Append(mq, "loopStartSettled")

\* One pass of streamLoop from the loop head to its next suspension point
LoopIterate ==
  /\ pc = "top"
  /\ ~terminated
  /\ IF ~LoopCondition
       THEN /\ LoopBreak
            /\ UNCHANGED << cfgVars, plVars, procVars, promVars, monVars,
                            sleepTimer, sigVars, attempts, ghostVars >>
       ELSE LET nxt == getNext(playlist, currentIndex)
                video == nxt.video
            IN  /\ currentIndex' = nxt.index
                /\ UNCHANGED << cfgVars, dir, playlist, watchPending, dirChanges,
                                retryCount, errors, statusErrors, snapshot,
                                recordCalls, sleepTimer, sigVars, failedSince,
                                received >>
                /\ IF video = NoVideo
                     THEN /\ UNCHANGED << procVars, promVars, attempts, session,
                                          currentVideo >>
                          /\ IF ~loopPlaylist
                               THEN LoopBreak
                               ELSE UNCHANGED << pc, mq, sdVars, stopVars,
                                                 outVars >>
                   ELSE IF attempts >= MaxAttempts
                     THEN /\ pc' = "cutoff"
                          /\ UNCHANGED << procVars, promVars, attempts, session,
                                          currentVideo, mq, sdVars, stopVars,
                                          outVars >>
                   ELSE /\ attempts' = attempts + 1
                        /\ overlay' = formatOverlayText(video)
                        /\ currentVideo' = updateCurrentVideo(video)
                        /\ UNCHANGED uptime
                        /\ pc' = "awaitStart"
                        /\ StreamerStart(video)
                        /\ UNCHANGED << sdVars, stopVars >>
  /\ UNCHANGED auxVars

\* ----------------------------------------------------------------------
\* Promise continuations

\* streamLoop resumes after `await this.streamer.start(video.path)`
LoopStartSettled ==
  /\ mq # <<>> /\ Head(mq) = "loopStartSettled"
  /\ pc = "awaitStart"
  /\ ~terminated
  /\ startPromise' = "none"
  /\ startError' = <<>>
  /\ UNCHANGED << cfgVars, plVars, procVars, sigVars, attempts, session,
                  received, currentVideo >>
  /\ IF startPromise = "resolved"
       THEN /\ retryCount' = resetRetry
            /\ failedSince' = IF session.kind = "completed" THEN 0 ELSE failedSince
            /\ pc' = "top"
            /\ mq' = Tail(mq)
            /\ UNCHANGED << errors, statusErrors, snapshot, recordCalls,
                            sleepTimer, sdVars, stopVars, outVars >>
       ELSE /\ RecordError(startError)
            /\ retryCount' = incrementRetry(retryCount)
            /\ failedSince' = failedSince + 1
            /\ IF ~shouldRetry(retryCount')
                 THEN /\ ShutdownCall
                      /\ pc' = "awaitShutdown"
                      /\ mq' = IF isShuttingDown
                                 THEN Append(Tail(mq), "loopAfterShutdown")
                                 ELSE Tail(mq)
                      /\ UNCHANGED sleepTimer
                 ELSE /\ sleepTimer' = getBackoffDelay(retryCount')
                      /\ uptime' = updateUptime
                      /\ pc' = "sleeping"
                      /\ mq' = Tail(mq)
                      /\ UNCHANGED << sdVars, stopVars, overlay >>
  /\ UNCHANGED auxVars

\* streamLoop resumes after `await this.sleep(delay)`
LoopAfterSleep ==
  /\ mq # <<>> /\ Head(mq) = "loopAfterSleep"
  /\ pc = "sleeping"
  /\ ~terminated
  /\ pc' = "top"
  /\ mq' = Tail(mq)
  /\ UNCHANGED << cfgVars, plVars, procVars, promVars, stopVars, monVars,
                  sdVars, sleepTimer, sigVars, attempts, ghostVars >>
  /\ UNCHANGED auxVars
  /\ UNCHANGED outVars

\* streamLoop resumes after `await this.shutdown()` and returns
LoopAfterShutdown ==
  /\ mq # <<>> /\ Head(mq) = "loopAfterShutdown"
  /\ pc = "awaitShutdown"
  /\ ~terminated
  /\ pc' = "done"
  /\ mq' = Tail(mq)
  /\ UNCHANGED << cfgVars, plVars, procVars, promVars, stopVars, monVars,
                  sdVars, sleepTimer, sigVars, attempts, ghostVars >>
  /\ UNCHANGED auxVars
  /\ UNCHANGED outVars

\* shutdown resumes after `await this.streamer.stop()`
ShutdownAfterStop ==
  /\ mq # <<>> /\ Head(mq) = "shutdownAfterStop"
  /\ pc # "top"
  /\ ~terminated
  /\ sdpc = "awaitStop"
  /\ ShutdownRest
  /\ mq' = Tail(mq)
  /\ UNCHANGED << cfgVars, plVars, procVars, promVars, stopVars, monVars,
                  isShuttingDown, shutdownRuns, pc, sleepTimer, sigVars, attempts,
                  ghostVars >>
  /\ UNCHANGED auxVars

\* shutdown resumes after `await this.previewServer.stop()` and runs to
\* process.exit(0)
ShutdownAfterPreview ==
  /\ mq # <<>> /\ Head(mq) = "shutdownAfterPreview"
  /\ pc # "top"
  /\ ~terminated
  /\ sdpc = "awaitPreview"
  /\ sdpc' = "done"
  /\ released' = TRUE
  /\ overlay' = NoOverlay
  /\ uptime' = updateUptime
  /\ terminated' = TRUE
  /\ mq' = Tail(mq)
  /\ UNCHANGED << cfgVars, plVars, procVars, promVars, stopVars, monVars,
                  isShuttingDown, shutdownRuns, pc, sleepTimer, sigVars, attempts,
                  ghostVars >>
  /\ UNCHANGED auxVars

\* ----------------------------------------------------------------------
\* Event-loop callbacks

\* SIGINT / SIGTERM handler
OnSignal ==
  /\ Idle
  /\ pendingSignals > 0
  /\ pendingSignals' = pendingSignals - 1
  /\ ShutdownCall
  /\ UNCHANGED << cfgVars, plVars, procVars, promVars, monVars, pc,
                  sleepTimer, mq, signalsSent, stopCalls, attempts, ghostVars >>
  /\ UNCHANGED auxVars

\* 'uncaughtException' / 'unhandledRejection' handler: an exception
\* escaped a callback, or a rejected promise had no handler
OnFatalError ==
  /\ Idle
  /\ signalsSent < MaxSignals
  /\ signalsSent' = signalsSent + 1
  /\ RecordError(<< "uncaught" >>)
  /\ ShutdownCall
  /\ UNCHANGED << cfgVars, plVars, procVars, promVars, retryCount,
                  currentVideo, pc, sleepTimer, mq, pendingSignals, stopCalls,
                  attempts, ghostVars >>
  /\ UNCHANGED auxVars

\* stderr 'data' handler of the running encoder
OnStderrData(chunk) ==
  /\ Idle
  /\ isStreaming
  /\ process \in alive
  /\ LET parsed == parseFFmpegOutput(chunk, streamDuration, videoDuration,
                                     inputMetadata)
     IN  /\ streamDuration' = parsed.streamDuration
         /\ videoDuration' = parsed.videoDuration
         /\ inputMetadata' = parsed.metadata
  /\ errorChunks' = errorChunks \cup MarkersOf(chunk)
  /\ UNCHANGED << cfgVars, plVars, process, currentVideoPath, alive, killSent,
                  promVars, stopVars, monVars, sdVars, pc, sleepTimer, mq,
                  sigVars, attempts, session, failedSince >>
  /\ UNCHANGED auxVars
  /\ UNCHANGED outVars

StderrData(chunk) ==
  /\ OnStderrData(chunk)
  /\ UNCHANGED received

\* The 'exit' listeners of encoder p run with outcome o: the handler that
\* start registered, then the listener of a pending stop(); stillAlive
\* is the set of encoders running afterwards.  The handler clears the
\* handle and the path before it generates the report.
ExitEvent(p, o, stillAlive) ==
  /\ Idle
  /\ p \in alive
  /\ killSent => o.signal = "SIGKILL"
  /\ process' = NoProc
  /\ currentVideoPath' = NoVideo
  /\ LET wasCompleted == CompletedTable[streamDuration, videoDuration]
         settle == ExitSettles(o, wasCompleted)
     IN  /\ startPromise' = settle.state
         /\ startError' = settle.error
         /\ session' = [kind |-> settle.kind, stopped |-> stopPending = p,
                        killed |-> killSent, signal |-> o.signal,
                        cause |-> IF settle.state = "rejected"
                                    THEN generateErrorReport(o.signal, errorChunks,
                                           streamDuration, videoDuration)
                                    ELSE "none",
                        video |-> IF settle.state = "rejected"
                                    THEN currentVideoPath'
                                    ELSE NoVideo,
                        percent |-> IF settle.state = "rejected"
                                      THEN CompletionLineTable[streamDuration,
                                                               videoDuration]
                                      ELSE 0]
  /\ alive' = stillAlive
  /\ killSent' = FALSE
  /\ stopPending' = IF stopPending = p THEN NoProc ELSE stopPending
  /\ stopWaiters' = IF stopPending = p THEN 0 ELSE stopWaiters
  /\ mq' = IF stopPending = p /\ sdpc = "awaitStop"
             THEN << "loopStartSettled", "shutdownAfterStop" >>
             ELSE << "loopStartSettled" >>
  /\ UNCHANGED << cfgVars, plVars, streamDuration, videoDuration, errorChunks,
                  inputMetadata, received, killTimer, quitWritten, armedFor,
                  monVars, sdVars, pc, sleepTimer, sigVars, attempts,
                  failedSince >>
  /\ UNCHANGED auxVars
  /\ UNCHANGED outVars

\* The handlers run although the encoder is still running
ProcessExitStale(p, o) ==
  ExitEvent(p, o, alive)

\* Child-process 'exit' event: the encoder has exited
ProcessExit(p, o) ==
  ExitEvent(p, o, alive \ {p})

\* stop()'s force-kill timer, 5 s after stop() was called
KillTimerFire ==
  /\ Idle
  /\ killTimer > 0
  /\ killTimer' = killTimer - 1
  /\ armedFor' = Tail(armedFor)
  /\ killSent' = (isStreaming \/ killSent)
  /\ UNCHANGED << cfgVars, plVars, process, currentVideoPath, streamDuration,
                  videoDuration, errorChunks, inputMetadata, alive, promVars,
                  stopPending, quitWritten,
                  stopWaiters,
                  monVars, sdVars,
                  pc, sleepTimer, mq, sigVars, attempts, ghostVars >>
  /\ UNCHANGED auxVars
  /\ UNCHANGED outVars

\* The backoff timer of sleep(delay)
SleepTimerFire ==
  /\ Idle
  /\ sleepTimer > 0
  /\ sleepTimer' = 0
  /\ mq' = Append(mq, "loopAfterSleep")
  /\ UNCHANGED << cfgVars, plVars, procVars, promVars, stopVars, monVars,
                  sdVars, pc, sigVars, attempts, ghostVars >>
  /\ UNCHANGED auxVars
  /\ UNCHANGED outVars

\* close callback of the preview server
PreviewClosed ==
  /\ Idle
  /\ sdpc = "awaitPreview"
  /\ "shutdownAfterPreview" \notin { mq[i] : i \in DOMAIN mq }
  /\ mq' = Append(mq, "shutdownAfterPreview")
  /\ UNCHANGED << cfgVars, plVars, procVars, promVars, stopVars, monVars,
                  sdVars, pc, sleepTimer, sigVars, attempts, ghostVars >>
  /\ UNCHANGED auxVars
  /\ UNCHANGED outVars

\* fs.watch callback of PlaylistManager.startWatching
WatchCallback ==
  /\ Idle
  /\ watchPending
  /\ watchPending' = FALSE
  /\ playlist' = scanVideoDirectory(dir)
  /\ UNCHANGED << cfgVars, dir, currentIndex, dirChanges, procVars, promVars,
                  stopVars, monVars, sdVars, pc, sleepTimer, mq, sigVars, attempts,
                  ghostVars >>
  /\ UNCHANGED auxVars
  /\ UNCHANGED outVars

\* ----------------------------------------------------------------------
\* Environment

\* The operating system delivers SIGINT or SIGTERM to the service
SignalArrives ==
  /\ ~terminated
  /\ pc # "cutoff"
  /\ signalsSent < MaxSignals
  /\ signalsSent' = signalsSent + 1
  /\ pendingSignals' = pendingSignals + 1
  /\ UNCHANGED << cfgVars, plVars, procVars, promVars, stopVars, monVars,
                  sdVars, pc, sleepTimer, mq, stopCalls, attempts, ghostVars >>
  /\ UNCHANGED auxVars
  /\ UNCHANGED outVars

\* A supported video file is added to or removed from VIDEO_DIR
DirChange ==
  /\ ~terminated
  /\ pc # "cutoff"
  /\ dirChanges < MaxDirChanges
  /\ dirChanges' = dirChanges + 1
  /\ \E f \in Files :
       dir' = IF f \in dir THEN dir \ {f} ELSE dir \cup {f}
  /\ watchPending' = TRUE
  /\ UNCHANGED << cfgVars, playlist, currentIndex, procVars, promVars,
                  stopVars, monVars, sdVars, pc, sleepTimer, mq, sigVars,
                  attempts, ghostVars >>
  /\ UNCHANGED auxVars
  /\ UNCHANGED outVars

Next ==
  \/ LoopIterate
  \/ LoopStartSettled
  \/ LoopAfterSleep
  \/ LoopAfterShutdown
  \/ ShutdownAfterStop
  \/ ShutdownAfterPreview
  \/ OnSignal
  \/ \E chunk \in Chunks : StderrData(chunk)
  \/ \E p \in Pids, o \in ExitOutcomes : ProcessExit(p, o)
  \/ KillTimerFire
  \/ SleepTimerFire
  \/ PreviewClosed
  \/ WatchCallback
  \/ SignalArrives
  \/ DirChange

Spec == Init /\ [][Next]_vars

\* ----------------------------------------------------------------------
\* Streamer.stop() called directly, any number of times and at any idle
\* point, besides the call that shutdown() makes.
StopCall ==
  /\ Idle
  /\ stopCalls < MaxStopCalls
  /\ stopCalls' = stopCalls + 1
  /\ StreamerStop
  /\ UNCHANGED << cfgVars, plVars, procVars, promVars, monVars, sdVars, pc,
                  sleepTimer, mq, pendingSignals, signalsSent, attempts,
                  ghostVars >>
  /\ UNCHANGED auxVars
  /\ UNCHANGED outVars

StopNext ==
  \/ Next
  \/ StopCall

StopSpec == Init /\ [][StopNext]_vars

\* The service with fatal errors among its shutdown triggers
FatalNext ==
  \/ Next
  \/ OnFatalError

FatalSpec == Init /\ [][FatalNext]_vars

\* Promise continuations, run before any further event-loop callback
Continuations ==
  \/ LoopStartSettled
  \/ LoopAfterSleep
  \/ LoopAfterShutdown
  \/ ShutdownAfterStop
  \/ ShutdownAfterPreview

\* The event loop runs every queued continuation and every pending
\* callback; an encoder that was sent SIGKILL exits.  Nothing is assumed
\* about the backoff timer, the encoder's own exit or the directory.
Fairness ==
  /\ WF_vars(LoopIterate)
  /\ WF_vars(Continuations)
  /\ SF_vars(OnSignal)
  /\ SF_vars(KillTimerFire)
  /\ SF_vars(PreviewClosed)
  /\ SF_vars(killSent /\ \E p \in Pids, o \in ExitOutcomes : ProcessExit(p, o))

LiveSpec == Init /\ [][Next]_vars /\ Fairness

\* ----------------------------------------------------------------------
\* The completion judgement on its own: a session is running whose
\* counters hold any of the examined progress and total values; it exits
\* and the loop consumes the outcome.
CompletionInit ==
  /\ loopPlaylist = TRUE
  /\ previewMode = FALSE
  /\ maxRetries = MaxRetriesCfg
  /\ retryBackoffMs = RetryBackoffMs
  /\ dir = Files
  /\ playlist = scanVideoDirectory(dir)
  /\ currentIndex = getNext(playlist, 0).index
  /\ watchPending = FALSE
  /\ dirChanges = 0
  /\ process = 1
  /\ currentVideoPath = getNext(playlist, 0).video
  /\ streamDuration \in CompletionProgress
  /\ videoDuration \in CompletionTotals
  /\ errorChunks = {}
  /\ inputMetadata = NoMetadata
  /\ alive = {1}
  /\ killSent = FALSE
  /\ startPromise = "pending"
  /\ startError = <<>>
  /\ stopPending = NoProc
  /\ killTimer = 0
  /\ quitWritten = FALSE
  /\ stopWaiters = 0
  /\ retryCount = 0
  /\ errors = <<>>
  /\ statusErrors = InitialStatusErrors
  /\ snapshot = NoSnapshot
  /\ recordCalls = 0
  /\ currentVideo = currentVideoPath
  /\ isShuttingDown = FALSE
  /\ pc = "awaitStart"
  /\ sdpc = "none"
  /\ sleepTimer = 0
  /\ mq = <<>>
  /\ pendingSignals = 0
  /\ signalsSent = 0
  /\ stopCalls = 0
  /\ shutdownRuns = 0
  /\ released = FALSE
  /\ terminated = FALSE
  /\ attempts = 1
  /\ session = NoSession
  /\ failedSince = 0
  /\ received = <<>>
  /\ armedFor = <<>>
  /\ overlay = formatOverlayText(currentVideoPath)
  /\ uptime = 0
  /\ now = 0
  /\ startCalls = 0
  /\ callError = <<>>
  /\ served = <<>>

CompletionNext ==
  \/ \E p \in Pids, o \in ExitOutcomes : ProcessExit(p, o)
  \/ LoopStartSettled

CompletionSpec == CompletionInit /\ [][CompletionNext]_vars

\* ----------------------------------------------------------------------
\* The supervisor loop over a fixed playlist of several videos: nothing
\* is added to or removed from the directory and no signal is delivered.
RotationInit ==
  /\ loopPlaylist \in BOOLEAN
  /\ previewMode \in BOOLEAN
  /\ maxRetries \in 1..MaxRetriesCfg
  /\ retryBackoffMs = RetryBackoffMs
  /\ dir = 1..RotationSize
  /\ playlist = scanVideoDirectory(dir)
  /\ currentIndex = 0
  /\ watchPending = FALSE
  /\ dirChanges = 0
  /\ process = NoProc
  /\ currentVideoPath = NoVideo
  /\ streamDuration = 0
  /\ videoDuration = 0
  /\ errorChunks = {}
  /\ inputMetadata = NoMetadata
  /\ alive = {}
  /\ killSent = FALSE
  /\ startPromise = "none"
  /\ startError = <<>>
  /\ stopPending = NoProc
  /\ killTimer = 0
  /\ quitWritten = FALSE
  /\ stopWaiters = 0
  /\ retryCount = 0
  /\ errors = <<>>
  /\ statusErrors = InitialStatusErrors
  /\ snapshot = NoSnapshot
  /\ recordCalls = 0
  /\ currentVideo = NoVideo
  /\ isShuttingDown = FALSE
  /\ pc = "top"
  /\ sdpc = "none"
  /\ sleepTimer = 0
  /\ mq = <<>>
  /\ pendingSignals = 0
  /\ signalsSent = 0
  /\ stopCalls = 0
  /\ shutdownRuns = 0
  /\ released = FALSE
  /\ terminated = FALSE
  /\ attempts = 0
  /\ session = NoSession
  /\ failedSince = 0
  /\ received = <<>>
  /\ armedFor = <<>>
  /\ overlay = NoOverlay
  /\ uptime = 0
  /\ now = 0
  /\ startCalls = 0
  /\ callError = <<>>
  /\ served = <<>>

RotationNext ==
  \/ LoopIterate
  \/ LoopStartSettled
  \/ LoopAfterSleep
  \/ ShutdownAfterPreview
  \/ \E chunk \in Chunks : StderrData(chunk)
  \/ \E p \in Pids, o \in ExitOutcomes : ProcessExit(p, o)
  \/ SleepTimerFire
  \/ PreviewClosed

RotationSpec == RotationInit /\ [][RotationNext]_vars

\* ----------------------------------------------------------------------
\* Everything but the monitor and the configured base delay, as it is
\* after construction
ServiceAtRest ==
  /\ loopPlaylist = TRUE
  /\ previewMode = FALSE
  /\ maxRetries = MaxRetriesCfg
  /\ dir = Files
  /\ playlist = scanVideoDirectory(dir)
  /\ currentIndex = 0
  /\ watchPending = FALSE
  /\ dirChanges = 0
  /\ process = NoProc
  /\ currentVideoPath = NoVideo
  /\ streamDuration = 0
  /\ videoDuration = 0
  /\ errorChunks = {}
  /\ inputMetadata = NoMetadata
  /\ alive = {}
  /\ killSent = FALSE
  /\ startPromise = "none"
  /\ startError = <<>>
  /\ stopPending = NoProc
  /\ killTimer = 0
  /\ quitWritten = FALSE
  /\ stopWaiters = 0
  /\ currentVideo = NoVideo
  /\ isShuttingDown = FALSE
  /\ pc = "top"
  /\ sdpc = "none"
  /\ mq = <<>>
  /\ pendingSignals = 0
  /\ signalsSent = 0
  /\ stopCalls = 0
  /\ shutdownRuns = 0
  /\ released = FALSE
  /\ terminated = FALSE
  /\ attempts = 0
  /\ session = NoSession
  /\ failedSince = 0
  /\ received = <<>>
  /\ armedFor = <<>>
  /\ overlay = NoOverlay
  /\ uptime = 0
  /\ now = 0
  /\ startCalls = 0
  /\ callError = <<>>
  /\ served = <<>>

\* The backoff policy on its own: the monitor holds any retry count, the
\* configuration any base delay; the delay is computed for the current
\* count, or the count is incremented and the delay computed, as the
\* failure branch of the loop does.
BackoffInit ==
  /\ ServiceAtRest
  /\ retryBackoffMs \in BaseDelays
  /\ retryCount \in 0..MaxRetryCount
  /\ errors = <<>>
  /\ statusErrors = InitialStatusErrors
  /\ snapshot = NoSnapshot
  /\ recordCalls = 0
  /\ sleepTimer = 0

GetBackoffDelayCall ==
  /\ sleepTimer' = getBackoffDelay(retryCount)
  /\ UNCHANGED << cfgVars, plVars, procVars, promVars, stopVars, monVars,
                  sdVars, pc, mq, sigVars, attempts, ghostVars >>
  /\ UNCHANGED auxVars
  /\ UNCHANGED outVars

IncrementThenDelay ==
  /\ retryCount < MaxRetryCount
  /\ retryCount' = incrementRetry(retryCount)
  /\ sleepTimer' = getBackoffDelay(retryCount')
  /\ UNCHANGED << cfgVars, plVars, procVars, promVars, stopVars, errors,
                  currentVideo, statusErrors, snapshot, recordCalls, sdVars,
                  pc, mq, sigVars, attempts, ghostVars >>
  /\ UNCHANGED auxVars
  /\ UNCHANGED outVars

BackoffNext ==
  \/ GetBackoffDelayCall
  \/ IncrementThenDelay

BackoffSpec == BackoffInit /\ [][BackoffNext]_vars

\* ----------------------------------------------------------------------
\* The service from its start, with encoders that report a 30 min video,
\* 42 s of progress and error text, and no shutdown request
DiagnosisNext ==
  \/ LoopIterate
  \/ LoopStartSettled
  \/ LoopAfterSleep
  \/ ShutdownAfterPreview
  \/ \E chunk \in DiagnosisChunks : StderrData(chunk)
  \/ \E p \in Pids, o \in ExitOutcomes : ProcessExit(p, o)
  \/ SleepTimerFire
  \/ PreviewClosed

DiagnosisSpec == Init /\ [][DiagnosisNext]_vars

\* ----------------------------------------------------------------------
\* The health monitor on its own: errors are recorded one after the
\* other, the n-th with the message n, and a caller takes a status object
\* at some point and keeps it.
MonitorInit ==
  /\ ServiceAtRest
  /\ retryBackoffMs = RetryBackoffMs
  /\ retryCount = 0
  /\ errors = <<>>
  /\ statusErrors = InitialStatusErrors
  /\ snapshot = NoSnapshot
  /\ recordCalls = 0
  /\ sleepTimer = 0

RecordErrorCall ==
  /\ recordCalls < MaxRecordCalls
  /\ RecordError(<< "message", recordCalls + 1 >>)
  /\ UNCHANGED << cfgVars, plVars, procVars, promVars, stopVars, retryCount,
                  currentVideo, sdVars, pc, sleepTimer, mq, sigVars, attempts,
                  ghostVars >>
  /\ UNCHANGED auxVars
  /\ UNCHANGED outVars

GetStatusCall ==
  /\ ~snapshot.taken
  /\ uptime' = updateUptime
  /\ snapshot' = getStatus
  /\ UNCHANGED overlay
  /\ UNCHANGED << cfgVars, plVars, procVars, promVars, stopVars, retryCount,
                  errors, currentVideo, statusErrors, recordCalls, sdVars, pc,
                  sleepTimer, mq, sigVars, attempts, ghostVars >>
  /\ UNCHANGED auxVars

\* The holder of the status object pushes an entry on its errors array
MutateSnapshot ==
  /\ snapshot.taken
  /\ ~snapshot.mutated
  /\ snapshot' = [snapshot EXCEPT !.errors = Append(@, << "foreign" >>),
                                  !.mutated = TRUE]
  /\ errors' = IF snapshot.ref = "live"
                 THEN Append(errors, << "foreign" >>)
                 ELSE errors
  /\ statusErrors' =
       IF snapshot.ref = "live"
         THEN [statusErrors EXCEPT !.items = errors']
       ELSE IF snapshot.ref = "initial" /\ statusErrors.own
         THEN [statusErrors EXCEPT !.items = Append(@, << "foreign" >>)]
       ELSE statusErrors
  /\ UNCHANGED << cfgVars, plVars, procVars, promVars, stopVars, retryCount,
                  currentVideo, recordCalls, sdVars, pc, sleepTimer, mq,
                  sigVars, attempts, ghostVars >>
  /\ UNCHANGED auxVars
  /\ UNCHANGED outVars

MonitorNext ==
  \/ RecordErrorCall
  \/ GetStatusCall

MonitorSpec == MonitorInit /\ [][MonitorNext]_vars

SnapshotNext ==
  \/ MonitorNext
  \/ MutateSnapshot

SnapshotSpec == MonitorInit /\ [][SnapshotNext]_vars

\* ----------------------------------------------------------------------
\* The failure diagnosis on its own: a session is running whose stderr
\* chunks held any combination of the markers and whose counters hold any
\* of the examined values; it exits and the loop consumes the outcome.
ClassifierInit ==
  /\ loopPlaylist = TRUE
  /\ previewMode = FALSE
  /\ maxRetries = MaxRetriesCfg
  /\ retryBackoffMs = RetryBackoffMs
  /\ dir = Files
  /\ playlist = scanVideoDirectory(dir)
  /\ currentIndex = getNext(playlist, 0).index
  /\ watchPending = FALSE
  /\ dirChanges = 0
  /\ process = 1
  /\ currentVideoPath = getNext(playlist, 0).video
  /\ streamDuration \in ClassifierProgress
  /\ videoDuration \in ClassifierTotals
  /\ errorChunks \in SUBSET Markers
  /\ inputMetadata = NoMetadata
  /\ alive = {1}
  /\ killSent = FALSE
  /\ startPromise = "pending"
  /\ startError = <<>>
  /\ stopPending = NoProc
  /\ killTimer = 0
  /\ quitWritten = FALSE
  /\ stopWaiters = 0
  /\ retryCount = 0
  /\ errors = <<>>
  /\ statusErrors = InitialStatusErrors
  /\ snapshot = NoSnapshot
  /\ recordCalls = 0
  /\ currentVideo = currentVideoPath
  /\ isShuttingDown = FALSE
  /\ pc = "awaitStart"
  /\ sdpc = "none"
  /\ sleepTimer = 0
  /\ mq = <<>>
  /\ pendingSignals = 0
  /\ signalsSent = 0
  /\ stopCalls = 0
  /\ shutdownRuns = 0
  /\ released = FALSE
  /\ terminated = FALSE
  /\ attempts = 1
  /\ session = NoSession
  /\ failedSince = 0
  /\ received = <<>>
  /\ armedFor = <<>>
  /\ overlay = formatOverlayText(currentVideoPath)
  /\ uptime = 0
  /\ now = 0
  /\ startCalls = 0
  /\ callError = <<>>
  /\ served = <<>>

ClassifierNext ==
  \/ \E p \in Pids, o \in ExitOutcomes : ProcessExit(p, o)
  \/ LoopStartSettled

ClassifierSpec == ClassifierInit /\ [][ClassifierNext]_vars

\* ----------------------------------------------------------------------
\* The output parser on its own: a session has just started; its stderr
\* text arrives in chunks, cut anywhere, then the encoder exits and the
\* loop consumes the outcome.
ParserInit ==
  /\ loopPlaylist = TRUE
  /\ previewMode = FALSE
  /\ maxRetries = MaxRetriesCfg
  /\ retryBackoffMs = RetryBackoffMs
  /\ dir = Files
  /\ playlist = scanVideoDirectory(dir)
  /\ currentIndex = getNext(playlist, 0).index
  /\ watchPending = FALSE
  /\ dirChanges = 0
  /\ process = 1
  /\ currentVideoPath = getNext(playlist, 0).video
  /\ streamDuration = 0
  /\ videoDuration = 0
  /\ errorChunks = {}
  /\ inputMetadata = NoMetadata
  /\ alive = {1}
  /\ killSent = FALSE
  /\ startPromise = "pending"
  /\ startError = <<>>
  /\ stopPending = NoProc
  /\ killTimer = 0
  /\ quitWritten = FALSE
  /\ stopWaiters = 0
  /\ retryCount = 0
  /\ errors = <<>>
  /\ statusErrors = InitialStatusErrors
  /\ snapshot = NoSnapshot
  /\ recordCalls = 0
  /\ currentVideo = currentVideoPath
  /\ isShuttingDown = FALSE
  /\ pc = "awaitStart"
  /\ sdpc = "none"
  /\ sleepTimer = 0
  /\ mq = <<>>
  /\ pendingSignals = 0
  /\ signalsSent = 0
  /\ stopCalls = 0
  /\ shutdownRuns = 0
  /\ released = FALSE
  /\ terminated = FALSE
  /\ attempts = 1
  /\ session = NoSession
  /\ failedSince = 0
  /\ received = <<>>
  /\ armedFor = <<>>
  /\ overlay = formatOverlayText(currentVideoPath)
  /\ uptime = 0
  /\ now = 0
  /\ startCalls = 0
  /\ callError = <<>>
  /\ served = <<>>

\* Chunks of at most MaxChunkLen tokens; a head followed by its tail
\* within one chunk is the whole header or marker
ParserChunks ==
  { c \in UNION { [1..n -> ParserTokens] : n \in 1..MaxChunkLen } : Join(c) = c }

ParserData(chunk) ==
  /\ Len(received) + Len(chunk) <= MaxReceived
  /\ OnStderrData(chunk)
  /\ received' = received \o chunk

ParserNext ==
  \/ \E chunk \in ParserChunks : ParserData(chunk)
  \/ \E p \in Pids, o \in ExitOutcomes : ProcessExit(p, o)
  \/ LoopStartSettled

ParserSpec == ParserInit /\ [][ParserNext]_vars

\* ----------------------------------------------------------------------
\* Claims

\* The loop continuation that consumes the settled promise of start
StartConsumed ==
  startPromise # "none" /\ startPromise' = "none"

\* C1: in every reachable state at most one encoder process is alive.
C1_SingleEncoder ==
  Cardinality(alive) <= 1

\* a second session is running after the first one has ended
C1_Witness ==
  attempts = 2 /\ alive = {process} /\ process # NoProc

C3_RetryCountsFailures ==
  /\ retryCount = failedSince
  /\ failedSince >= maxRetries => pc \in {"awaitShutdown", "done"}

\* C4: retryCount is reset to 0 only by a session that exited cleanly
\* with a completion ratio of at least 0.98.
C4_ResetOnlyWhenCompleted ==
  [][(retryCount > 0 /\ retryCount' = 0) => session.kind = "completed"]_vars

\* C5: a Completed session sets retryCount to 0 whatever it was, records
\* no error, arms no backoff timer and returns to the loop head, where
\* the next work item is requested.
C5_CompletedSession ==
  [][(StartConsumed /\ session.kind = "completed")
       => /\ startPromise = "resolved"
          /\ retryCount' = 0
          /\ errors' = errors
          /\ sleepTimer' = 0
          /\ pc' = "top"]_vars

\* a Completed session after a failed one: the count went from 1 to 0
C5_Witness ==
  /\ session.kind = "completed"
  /\ startPromise = "none"
  /\ attempts = 2
  /\ Len(errors) = 1
  /\ retryCount = 0
  /\ pc = "top"

\* C6: a session that exited cleanly is Completed exactly when its total
\* duration is unknown or 100 * progress >= 98 * total; so 587 s of 600 s
\* is a PrematureCompletion and 588 s of 600 s is Completed.
C6_InclusiveBoundary ==
  session.kind \in {"completed", "premature"}
    => (session.kind = "completed"
          <=> (videoDuration = 0 \/ 100 * streamDuration >= 98 * videoDuration))

\* C7: a clean exit below the completion threshold resolves the item:
\* no error, no retry increment, no backoff timer, the playlist position
\* is not rewound and the loop returns to its head.
C7_PrematureIsWarning ==
  /\ [](session.kind = "premature" => startPromise \in {"resolved", "none"})
  /\ [][(StartConsumed /\ session.kind = "premature")
          => /\ errors' = errors
             /\ retryCount' <= retryCount
             /\ sleepTimer' = 0
             /\ currentIndex' = currentIndex
             /\ pc' = "top"]_vars

\* a premature session has been consumed by the loop
C7_Witness ==
  /\ session.kind = "premature"
  /\ startPromise = "none"
  /\ pc = "top"
  /\ errors = <<>>

\* C8: a session that shutdown stopped, and that exited after stop()'s
\* SIGKILL, adds no error and does not increment retryCount.
C8_ShutdownNotCounted ==
  [][(StartConsumed /\ session.stopped /\ session.killed)
       => (retryCount' <= retryCount /\ errors' = errors)]_vars

\* C9: a delivered shutdown signal leads to Terminated (or to the end of
\* the explored part of the run), and the collaborators are released
\* only when no encoder is running.
C9_ShutdownTerminates ==
  /\ (pendingSignals > 0) ~> (terminated \/ pc = "cutoff")
  /\ [](released => alive = {})

\* C10: once shutdown runs while the loop is in its backoff sleep, the
\* service reaches Terminated without the backoff timer having to fire,
\* and no encoder is started once shutdown has begun.
C10_ShutdownInterruptsBackoff ==
  /\ (isShuttingDown /\ pc = "sleeping" /\ sleepTimer > 0) ~> terminated
  /\ [][isShuttingDown => alive' \subseteq alive]_vars

\* the service terminated while the backoff timer was still pending
C10_Witness ==
  terminated /\ pc = "sleeping" /\ sleepTimer > 0

\* C11: once stop() has been called on a live encoder the quit token 'q'
\* has been written to its stdin, and SIGKILL is sent only by the
\* force-kill timer that stop() armed, never by stop() itself.
C11_GracefulThenKill ==
  /\ [](stopPending # NoProc => quitWritten)
  /\ [][(killSent' /\ ~killSent) => (killTimer > 0 /\ killTimer' = killTimer - 1)]_vars

C13_TerminatedOnce ==
  /\ [](shutdownRuns <= 1)
  /\ [](terminated => (released /\ isShuttingDown /\ shutdownRuns = 1))
  /\ [][terminated => UNCHANGED vars]_vars

\* Terminated was reached after both a fatal error and the loop, leaving
\* on retry exhaustion, had called shutdown()
C13_Witness ==
  /\ terminated
  /\ retryCount >= maxRetries
  /\ pc \in {"awaitShutdown", "done"}
  /\ \E i \in DOMAIN errors : errors[i] = << "uncaught" >>

\* C14: a failed item is never re-submitted.  Every loop iteration that
\* obtains a video advances the playlist index exactly once (wrapping at
\* the end), nothing else moves the index -- in particular not the failure
\* of a session -- and the session started after a failed one is for the
\* item that follows the failed item in the playlist.
PlaylistSuccessor(v) ==
  LET i == CHOOSE j \in DOMAIN playlist : playlist[j] = v
  IN  playlist[(i % Len(playlist)) + 1]

C15_DelayFormula ==
  sleepTimer # 0
    => LET doubled == retryBackoffMs * 2 ^ retryCount
           cap == retryBackoffMs * 60
       IN  /\ sleepTimer <= doubled
           /\ sleepTimer <= cap
           /\ sleepTimer \in {doubled, cap}

C15_Witness ==
  /\ retryBackoffMs = 5000
  /\ retryCount = 7
  /\ sleepTimer = 300000

\* C16: the delay never decreases as the retry count grows: from one count
\* to the next it strictly increases while it is below the cap base * 60,
\* and once it equals the cap it stays there.
C16_Monotone ==
  [][(retryCount' = retryCount + 1 /\ sleepTimer # 0)
       => LET cap == retryBackoffMs * 60
          IN  /\ sleepTimer <= sleepTimer'
              /\ sleepTimer < cap => sleepTimer < sleepTimer'
              /\ sleepTimer = cap => sleepTimer' = cap
              /\ sleepTimer' <= cap]_vars

C16_Witness ==
  /\ retryBackoffMs = 30000
  /\ retryCount = 6
  /\ sleepTimer = 1800000

C18_DelayAfterKthFailure ==
  [][(StartConsumed /\ startPromise = "rejected" /\ pc' = "sleeping")
       => sleepTimer' = retryBackoffMs * 2 ^ (retryCount' - 1)]_vars

\* C19: after n calls of recordError the error list holds exactly the most
\* recent min(n, 50) messages in call order, so it never has more than 50
\* entries; after 55 calls it has 50 and the first 5 messages are gone.
\* The status shows the same list.
C19_LastFifty ==
  LET n == recordCalls
      k == IF n < 50 THEN n ELSE 50
  IN  /\ Len(errors) = k
      /\ Len(errors) <= 50
      /\ \A i \in 1..k : errors[i] = << "message", n - k + i >>
      /\ n = 55 => /\ Len(errors) = 50
                   /\ \A m \in 1..5 :
                        \A i \in DOMAIN errors : errors[i] # << "message", m >>
      /\ n > 0 => statusErrors.items = errors

C19_Witness ==
  /\ recordCalls = 55
  /\ Len(errors) = 50
  /\ errors[1] = << "message", 6 >>
  /\ errors[50] = << "message", 55 >>

\* C20: a status object taken earlier is not changed by a later
\* recordError, and a change made to its errors does not change the
\* monitor's own list nor the list its status shows.
C20_SnapshotIsolated ==
  /\ [][(recordCalls' # recordCalls /\ snapshot.taken)
          => snapshot'.errors = snapshot.errors]_vars
  /\ [][(snapshot.taken /\ snapshot'.mutated /\ ~snapshot.mutated)
          => (errors' = errors /\ statusErrors' = statusErrors)]_vars

\* C21: start fails when the video file does not exist or the encoder
\* cannot be launched; no process is registered as running afterwards, and
\* the supervisor counts the attempt as a failure: one error recorded,
\* retryCount incremented by one.
SpawnFailure(err) ==
  err # <<>> /\ err[1] \in {"not found", "spawn error"}

C21_SpawnFailureCounted ==
  /\ [][(attempts' = attempts + 1 /\ currentVideo' \notin dir)
          => startPromise' = "rejected"]_vars
  /\ [][(attempts' = attempts + 1 /\ SpawnFailure(startError'))
          => /\ startPromise' = "rejected"
             /\ ~isStreaming'
             /\ alive' = alive]_vars
  /\ [][(StartConsumed /\ SpawnFailure(startError))
          => /\ retryCount' = retryCount + 1
             /\ errors' = Append(errors, startError)
             /\ recordCalls' = recordCalls + 1
             /\ ~isStreaming']_vars

C21_Witness ==
  /\ Len(errors) = 2
  /\ errors[1] = << "spawn error" >>
  /\ errors[2][1] = "not found"
  /\ retryCount = 2
  /\ ~isStreaming

\* The encoder exits and its session fails: start's exit handler rejects
SessionFails ==
  /\ process # NoProc
  /\ process' = NoProc
  /\ session'.kind = "failed"

\* C22: the diagnosis of a failed session is the out-of-memory cause if
\* and only if the encoder was ended by SIGKILL, whatever the exit code and
\* whatever markers its output contained.
C22_OutOfMemoryIffKilled ==
  [][SessionFails
       => (session'.cause = "out of memory" <=> session'.signal = "SIGKILL")]_vars

C22_Witness ==
  /\ session.cause = "out of memory"
  /\ session.signal = "SIGKILL"
  /\ errorChunks = Markers
  /\ streamDuration = 1749
  /\ videoDuration = 3500

\* C23: the diagnosis applies seven rules in the order kill signal,
\* invalid data, hardware encoder, network, conversion failed, less than
\* half of the video streamed, unknown; the one cause reported is that of
\* the first rule that matches, for every combination of signal, markers
\* and progress.
C23_FirstRuleWins ==
  [][SessionFails =>
       LET r1 == session'.signal = "SIGKILL"
           r2 == "Invalid data found" \in errorChunks
           r3 == "NVENC" \in errorChunks \/ "h264_nvenc" \in errorChunks
           r4 == "Connection refused" \in errorChunks \/ "RTMP" \in errorChunks
           r5 == "Conversion failed" \in errorChunks
           r6 == videoDuration > 0 /\ 2 * streamDuration < videoDuration
           c == session'.cause
       IN  /\ c \in {"out of memory", "corrupted file", "hardware encoder",
                     "network", "conversion", "stopped early", "unknown"}
           /\ c = "out of memory" <=> r1
           /\ c = "corrupted file" <=> ~r1 /\ r2
           /\ c = "hardware encoder" <=> ~r1 /\ ~r2 /\ r3
           /\ c = "network" <=> ~r1 /\ ~r2 /\ ~r3 /\ r4
           /\ c = "conversion" <=> ~r1 /\ ~r2 /\ ~r3 /\ ~r4 /\ r5
           /\ c = "stopped early" <=> ~r1 /\ ~r2 /\ ~r3 /\ ~r4 /\ ~r5 /\ r6
           /\ c = "unknown" <=> ~r1 /\ ~r2 /\ ~r3 /\ ~r4 /\ ~r5 /\ ~r6]_vars

C23_Witness ==
  /\ session.cause = "hardware encoder"
  /\ session.signal = "SIGTERM"
  /\ errorChunks = {"h264_nvenc", "RTMP", "Conversion failed"}
  /\ streamDuration = 0
  /\ videoDuration = 3500

\* C24: when the total duration is unknown (0) the completion ratio counts
\* as 1.0 wherever it is used: a clean exit is Completed, not premature;
\* the diagnosis of a failure is not 'stopped early'; the report of a
\* failure shows a completion of 100%.
C24_UnknownTotalIsComplete ==
  /\ [][(process # NoProc /\ process' = NoProc /\ videoDuration = 0
           /\ startPromise' = "resolved")
          => session'.kind = "completed"]_vars
  /\ [][(SessionFails /\ videoDuration = 0)
          => /\ session'.cause # "stopped early"
             /\ session'.percent = 1000]_vars

\* A chunk of stderr text is processed
ChunkProcessed ==
  received' # received

\* C25: within a session the total duration is taken from the first
\* header that parses and never extracted again: a later chunk with
\* another Duration header leaves it unchanged.
C25_DurationExtractedOnce ==
  [][(ChunkProcessed /\ videoDuration # 0)
       => videoDuration' = videoDuration]_vars

\* C26: every metadata field is written once in a session: a field that
\* a parse has set is not changed by any later chunk.
C26_MetadataWriteOnce ==
  [][ChunkProcessed
       => \A f \in DOMAIN NoMetadata :
            inputMetadata[f] # 0 => inputMetadata'[f] = inputMetadata[f]]_vars

\* C27: after any sequence of chunks the progress is the value of the last
\* time= marker that has arrived, also when one chunk carries several.
LastOf(text, kind, default) ==
  LET idxs == { i \in DOMAIN text : text[i].kind = kind }
  IN  IF idxs = {} THEN default
      ELSE text[CHOOSE i \in idxs : \A j \in idxs : i >= j].cs

C27_LastMarkerWins ==
  streamDuration = LastOf(received, "time", 0)

\* C28: within a session the progress never decreases from one processed
\* chunk to the next, whatever marker values arrive.
C28_ProgressMonotone ==
  [][ChunkProcessed => streamDuration' >= streamDuration]_vars

\* C29: the parser's result does not depend on chunking: whatever way the
\* text received so far was cut into chunks, also through a header or a
\* marker, duration, metadata and progress are those of the text
\* delivered as one chunk.
C29_ChunkingIndependent ==
  LET whole == parseFFmpegOutput(Join(received), 0, 0, NoMetadata)
  IN  /\ videoDuration = whole.videoDuration
      /\ streamDuration = whole.streamDuration
      /\ inputMetadata = whole.metadata

\* C30: the failure report of a session that exits with a signal or a nonzero
\* code carries the video path of that session
C30_ReportCarriesVideoPath ==
  [][SessionFails => session'.video = currentVideoPath]_vars

\* ----------------------------------------------------------------------
\* A second caller invokes Streamer.start() while the session of the
\* loop is live, with the path of a file that exists or of one that does
\* not
StartCall(videoPath) ==
  /\ Idle
  /\ isStreaming
  /\ startCalls < MaxStartCalls
  /\ startCalls' = startCalls + 1
  /\ LET entry == startEntry(videoPath)
     IN  /\ callError' = entry.error
         /\ currentVideoPath' = entry.currentVideoPath
         /\ streamDuration' = entry.streamDuration
         /\ videoDuration' = entry.videoDuration
  /\ UNCHANGED << cfgVars, plVars, process, errorChunks, inputMetadata, alive,
                  killSent, promVars, stopVars, monVars, sdVars, pc,
                  sleepTimer, mq, sigVars, attempts, ghostVars, outVars, now,
                  served >>

StartNext ==
  \/ ClassifierNext
  \/ \E videoPath \in Files \cup {MaxFiles + 1} : StartCall(videoPath)

StartSpec == ClassifierInit /\ [][StartNext]_vars

\* C31: start() called while a session is live is rejected with 'Stream
\* already running' and leaves the process, the video path and the
\* progress and duration counters of the live session as they are
C31_StartWhileLiveRejected ==
  [][(startCalls' # startCalls /\ isStreaming) =>
       /\ callError' = << "already running" >>
       /\ UNCHANGED << process, alive, currentVideoPath, streamDuration,
                       videoDuration, errorChunks, inputMetadata,
                       startPromise >>]_vars

\* a second call was rejected while the session had made progress
C31_Witness ==
  /\ startCalls = 1
  /\ callError = << "already running" >>
  /\ isStreaming
  /\ currentVideoPath # NoVideo
  /\ streamDuration = 1750
  /\ videoDuration = 3500

\* ----------------------------------------------------------------------
\* The service with its periodic health check and the passing of time

\* a health check that clears the retry counter of a healthy service
PerformHealthCheckResetting ==
  /\ Idle
  /\ ~released
  /\ uptime' = updateUptime
  /\ retryCount' = IF retryCount < maxRetries THEN 0 ELSE retryCount
  /\ UNCHANGED << cfgVars, plVars, procVars, promVars, stopVars, errors,
                  currentVideo, statusErrors, snapshot, recordCalls, sdVars,
                  pc, sleepTimer, mq, sigVars, attempts, ghostVars, overlay,
                  auxVars >>

\* HealthMonitor.getHealthCheck(), after its updateUptime(): the result
\* that performHealthCheck logs
getHealthCheck ==
  [healthy |-> ~released /\ retryCount < maxRetries,
   uptime |-> updateUptime,
   currentVideo |-> currentVideo,
   errorCount |-> Len(errors),
   lastError |-> IF errors = <<>> THEN <<>> ELSE errors[Len(errors)]]

\* setInterval callback of HealthMonitor.start: performHealthCheck();
\* shutdown clears the interval with monitor.stop()
PerformHealthCheck ==
  /\ Idle
  /\ ~released
  /\ uptime' = getHealthCheck.uptime
  /\ UNCHANGED << cfgVars, plVars, procVars, promVars, stopVars, retryCount,
                  errors, currentVideo, statusErrors, snapshot, recordCalls,
                  sdVars, pc, sleepTimer, mq, sigVars, attempts, ghostVars,
                  overlay, auxVars >>

\* Time passes
Tick ==
  /\ ~terminated
  /\ pc # "cutoff"
  /\ now < MaxNow
  /\ now' = now + 1
  /\ UNCHANGED << cfgVars, plVars, procVars, promVars, stopVars, monVars,
                  sdVars, pc, sleepTimer, mq, sigVars, attempts, ghostVars,
                  outVars, startCalls, callError, served >>

HealthNext ==
  \/ Next
  \/ PerformHealthCheck
  \/ Tick

HealthSpec == Init /\ [][HealthNext]_vars

\* C32: whenever the periodic health check fires it leaves the retry
\* count, the error list, the current item and the encoder process as they
\* are; only the derived uptime may change
C32_HealthCheckReadOnly ==
  [][PerformHealthCheck =>
       UNCHANGED << retryCount, errors, statusErrors, currentVideo, process,
                    alive, currentVideoPath, startPromise, isShuttingDown,
                    pc, sdpc, mq, sleepTimer >>]_vars

\* a health check has run during a session that follows a counted failure
C32_Witness ==
  /\ isStreaming
  /\ retryCount = 1
  /\ Len(errors) = 1
  /\ now = MaxNow
  /\ uptime = MaxNow

\* C33: once shutdown has been requested the loop makes no further call
\* of start(), no encoder is spawned and no handle is installed, whether
\* the request came while a session was awaited, during the backoff sleep
\* or between two iterations
C33_NoSessionAfterShutdown ==
  [][isShuttingDown =>
       /\ attempts' = attempts
       /\ alive' \subseteq alive
       /\ process' \in {process, NoProc}
       /\ currentVideo' = currentVideo]_vars

\* the loop woke from its backoff sleep during a shutdown and left
C33_Witness ==
  /\ isShuttingDown
  /\ ~terminated
  /\ loopPlaylist
  /\ pc \in {"awaitShutdown", "done"}
  /\ retryCount = 1
  /\ maxRetries = 2
  /\ sleepTimer = 0
  /\ process = NoProc

\* C34: a force-kill timer of stop() that fires while an encoder is held
\* sends SIGKILL only to the encoder of the session stop() was called on
C34_KillTimerOwnProcess ==
  [][(killTimer' < killTimer /\ isStreaming) => Head(armedFor) = attempts]_vars

\* C35: the loop never stays at its head: after asking the work source,
\* also when it yields no item, the loop leaves (and shuts down) or
\* reaches a suspension point, where pending signal handlers and watch
\* callbacks can run
C35_LoopYields ==
  (pc = "top") ~> (pc # "top")

\* ----------------------------------------------------------------------
\* The playlist on its own: a playlist of one or more videos that no
\* directory change touches, under any configuration; getNext() is
\* called again and again and its results are written down.
PlaylistInit ==
  /\ loopPlaylist \in BOOLEAN
  /\ previewMode \in BOOLEAN
  /\ maxRetries \in 1..MaxRetriesCfg
  /\ retryBackoffMs = RetryBackoffMs
  /\ dir \in { 1..n : n \in 1..RotationSize }
  /\ playlist = scanVideoDirectory(dir)
  /\ currentIndex = 0
  /\ watchPending = FALSE
  /\ dirChanges = 0
  /\ process = NoProc
  /\ currentVideoPath = NoVideo
  /\ streamDuration = 0
  /\ videoDuration = 0
  /\ errorChunks = {}
  /\ inputMetadata = NoMetadata
  /\ alive = {}
  /\ killSent = FALSE
  /\ startPromise = "none"
  /\ startError = <<>>
  /\ stopPending = NoProc
  /\ killTimer = 0
  /\ quitWritten = FALSE
  /\ stopWaiters = 0
  /\ retryCount = 0
  /\ errors = <<>>
  /\ statusErrors = InitialStatusErrors
  /\ snapshot = NoSnapshot
  /\ recordCalls = 0
  /\ currentVideo = NoVideo
  /\ isShuttingDown = FALSE
  /\ pc = "top"
  /\ sdpc = "none"
  /\ sleepTimer = 0
  /\ mq = <<>>
  /\ pendingSignals = 0
  /\ signalsSent = 0
  /\ stopCalls = 0
  /\ shutdownRuns = 0
  /\ released = FALSE
  /\ terminated = FALSE
  /\ attempts = 0
  /\ session = NoSession
  /\ failedSince = 0
  /\ received = <<>>
  /\ armedFor = <<>>
  /\ overlay = NoOverlay
  /\ uptime = 0
  /\ now = 0
  /\ startCalls = 0
  /\ callError = <<>>
  /\ served = <<>>

GetNextCall ==
  /\ Len(served) < MaxServed
  /\ LET nxt == getNext(playlist, currentIndex)
     IN  /\ currentIndex' = nxt.index
         /\ served' = Append(served, nxt.video)
  /\ UNCHANGED << cfgVars, dir, playlist, watchPending, dirChanges, procVars,
                  promVars, stopVars, monVars, sdVars, pc, sleepTimer, mq,
                  sigVars, attempts, ghostVars, outVars, now, startCalls,
                  callError >>

PlaylistNext ==
  GetNextCall

PlaylistSpec == PlaylistInit /\ [][PlaylistNext]_vars

\* C36: with loopPlaylist disabled the k-th getNext() call returns the
\* k-th item of the playlist for k up to its length, and none after that
C36_EachItemOnce ==
  ~loopPlaylist =>
    \A k \in DOMAIN served :
      served[k] = IF k <= Len(playlist) THEN playlist[k] ELSE NoVideo

\* C37: with loopPlaylist enabled getNext() never returns none and its
\* k-th call returns item (k - 1) mod n of the n items
C37_RoundRobin ==
  loopPlaylist =>
    \A k \in DOMAIN served :
      /\ served[k] # NoVideo
      /\ served[k] = playlist[((k - 1) % Len(playlist)) + 1]

\* a playlist of three videos was served twice over and started again
C37_Witness ==
  /\ loopPlaylist
  /\ Len(playlist) = 3
  /\ served = << 1, 2, 3, 1, 2, 3, 1 >>
  /\ currentIndex = 1

\* the loop's call of start() got past the guards: a session begins
SessionBegins ==
  /\ attempts' # attempts
  /\ startError' = <<>> \/ startError' = << "spawn error" >>

C39_OverlayOrder ==
  /\ [][attempts' # attempts =>
          /\ currentVideo' # NoVideo
          /\ overlay' = << "Now Playing", currentVideo' >>
          /\ process' # NoProc => currentVideoPath' = currentVideo']_vars
  /\ [][(released' /\ ~released) =>
          /\ overlay' = NoOverlay
          /\ process = NoProc
          /\ alive = {}]_vars

\* shutdown stopped the live encoder of an announced item, the encoder
\* exited, and the overlay was cleared
C39_Witness ==
  /\ released
  /\ overlay = NoOverlay
  /\ currentVideo # NoVideo
  /\ session.stopped
  /\ session.killed
  /\ alive = {}

=============================================================================
